---- MODULE Spec2Model ----
(***************************************************************************)
(* The project-management scripts of voice-koereq (src/scripts/*.py) as a  *)
(* state machine.  One run of a script is a sequence of steps; the working *)
(* tree (fs) and the feature specification (features) outlive a run, all   *)
(* other variables are the locals and the console of the running script.   *)
(* External commands (gh, git) are the environment: every call draws its   *)
(* return code, and a successful list call its payload, from a small set.  *)
(***************************************************************************)
EXTENDS Integers, Sequences, FiniteSets, TLC

VARIABLES
    tracker,             \* the open issues as gh issue list prints them (read by the dashboard and the trigger)
    features,            \* spec['features'] of voice-koereq-spec.yaml: the ids, in order
    fs,                  \* the files of the working tree the scripts test or write
    fs0,                 \* history: fs before the first run
    synced,              \* history: sync_claude_implementations has been started
    runs,                \* number of runs started
    script,              \* the running (or last) script, "none" before the first
    pc,                  \* position in the running script
    argv,                \* trigger_claude_batch: the numbers of sys.argv[1], << >> without argument
    issue_numbers,       \* trigger_claude_batch: the list handed to trigger_claude_on_issues
    i,                   \* loop index (1-based) of the running loop
    trace,               \* external calls and sleeps of this run, in order
    log,                 \* console lines of this run, in order
    issues,              \* show_dashboard / get_unimplemented_issues: json.loads(result.stdout)
    not_started,         \* show_dashboard buckets
    ready_to_implement,
    implemented,
    confirm,             \* trigger_claude_batch: the answer to the prompt
    progress_data,       \* check_progress: the dictionary dumped to progress.json
    next_feature         \* check_progress: the ::set-output value

vars == << tracker, features, fs, fs0, synced, runs, script, pc, argv, issue_numbers, i, trace, log,
           issues, not_started, ready_to_implement, implemented, confirm,
           progress_data, next_feature >>

-----------------------------------------------------------------------------
(* Bounds of the model *)

MaxFeatures == 3        \* longest feature list of the YAML specification
MaxIssues == 2          \* longest issue list gh returns / argv names
MaxRuns == 2            \* script runs in one behaviour

(* Inputs *)

FeatureIds == {"F1", "F5"}

Labels == {"implemented", "ready-to-implement", "backend", "bug"}

Answers == {"y", "Y", "n", "yes", ""}

SeqsUpTo(S, n) == UNION {[1..k -> S] : k \in 0..n}

\* issue numbers a caller can name in sys.argv[1]
ArgvNumbers == {1, 2}

Paths == {"ios/VoiceKoereq/Views/" \o id \o "View.swift" : id \in FeatureIds}

\* what `gh issue list --json number,labels` can print: newest issue first
IssueLists ==
    UNION { { [k \in 1..n |-> [number |-> n - k + 1, labels |-> ls[k]]] :
                ls \in [1..n -> SUBSET Labels] } : n \in 0..MaxIssues }

NoReport == [total_features |-> -1]

-----------------------------------------------------------------------------
(* Helpers: Python list operations *)

Range(s) == {s[k] : k \in 1..Len(s)}

RECURSIVE Gcd(_, _)
Gcd(a, b) == IF b = 0 THEN a ELSE Gcd(b, a % b)

-----------------------------------------------------------------------------
(* check_progress.py *)

\* Path(f"ios/VoiceKoereq/Views/{feature['id']}View.swift")
check_path(id) == "ios/VoiceKoereq/Views/" \o id \o "View.swift"

\* check_path.exists()
exists(path, files) == path \in files

\* the loop without its else: an implemented id is appended to both lists
RECURSIVE check_loop_no_else_mutant(_, _, _, _, _)
check_loop_no_else_mutant(fl, files, k, impl, pend) ==
    IF k > Len(fl) THEN [implemented |-> impl, not_implemented |-> pend]
    ELSE IF exists(check_path(fl[k]), files)
         THEN check_loop_no_else_mutant(fl, files, k + 1, Append(impl, fl[k]), Append(pend, fl[k]))
         ELSE check_loop_no_else_mutant(fl, files, k + 1, impl, Append(pend, fl[k]))

\* the loop of lines 19-26, from feature k on: implemented.append / not_implemented.append
RECURSIVE check_loop(_, _, _, _, _)
check_loop(fl, files, k, impl, pend) ==
    IF k > Len(fl) THEN [implemented |-> impl, not_implemented |-> pend]
    ELSE IF exists(check_path(fl[k]), files)
         THEN check_loop(fl, files, k + 1, Append(impl, fl[k]), pend)
         ELSE check_loop(fl, files, k + 1, impl, Append(pend, fl[k]))

\* the percentage with a floor division of done by total
progress_int_mutant(done, total) ==
    IF total > 0 THEN [num |-> (done \div total) * 100, den |-> 1] ELSE [num |-> 0, den |-> 1]

\* (done / total) * 100 if total > 0 else 0, as the exact fraction num/den in lowest terms
progress_of(done, total) ==
    IF total > 0
    THEN LET g == Gcd(done * 100, total)
         IN  [num |-> (done * 100) \div g, den |-> total \div g]
    ELSE [num |-> 0, den |-> 1]

\* the last pending feature instead of the first
next_feature_last_mutant(pending) ==
    IF pending # << >> THEN pending[Len(pending)] ELSE ""

\* lines 38-41
next_feature_of(pending) ==
    IF pending # << >> THEN pending[1] ELSE ""

\* lines 44-50
progress_data_of(fl, files) ==
    LET r == check_loop(fl, files, 1, << >>, << >>)
        impl == r.implemented
        pend == r.not_implemented
    IN  [ total_features |-> Len(fl),
          implemented |-> Len(impl),
          progress_percentage |-> progress_of(Len(impl), Len(fl)),
          implemented_features |-> impl,
          pending_features |-> pend ]

\* a check_progress that leaves a view file behind besides its report
progress_write_view_mutant(files) == files \cup {"progress.json", check_path("F5")}

\* open('progress.json', 'w'): the only file check_progress writes
progress_write(files) == files \cup {"progress.json"}

\* a run starts when no script is running; the locals of the last run are gone
Begin(s) ==
    /\ pc \in {"idle", "done", "error"}
    /\ runs < MaxRuns
    /\ runs' = runs + 1
    /\ synced' = (synced \/ s = "sync_claude_implementations")
    /\ script' = s
    /\ UNCHANGED << tracker, features, fs0 >>

NoDashboard ==
    /\ issues' = << >>
    /\ not_started' = << >>
    /\ ready_to_implement' = << >>
    /\ implemented' = << >>

NoTrigger ==
    /\ argv' = << >>
    /\ issue_numbers' = << >>
    /\ confirm' = ""

NoProgress ==
    /\ progress_data' = NoReport
    /\ next_feature' = ""

\* check_progress(): the whole script (lines 11-53)
check_progress ==
    /\ Begin("check_progress")
    /\ LET d == progress_data_of(features, fs)
       IN  /\ progress_data' = d
           /\ next_feature' = next_feature_of(d.pending_features)
           /\ log' = << [msg |-> "progress", arg |-> d.implemented],
                        [msg |-> "set-output next_feature",
                         arg |-> next_feature_of(d.pending_features)] >>
    /\ fs' = progress_write(fs)
    /\ pc' = "done"
    /\ i' = 0
    /\ trace' = << >>
    /\ NoDashboard
    /\ NoTrigger

-----------------------------------------------------------------------------
(* create_feature_issues.py, create_issues_simple.py *)

\* create_issues_simple.py lines 9-24
simple_features == << "F7", "F8" >>

\* the list each `for feature in features` walks
features_of(s) ==
    IF s = "create_issues_simple" THEN simple_features ELSE features

after_loop(k, list, here) == IF k > Len(list) THEN "done" ELSE here

\* lines 13-16 (create_feature_issues.py): load the spec, enter the loop
create_feature_issues_start ==
    /\ \E s \in {"create_feature_issues", "create_issues_simple"} :
          /\ Begin(s)
          /\ pc' = after_loop(1, features_of(s), "create")
    /\ i' = 1
    /\ trace' = << >>
    /\ log' = << >>
    /\ NoDashboard
    /\ NoTrigger
    /\ NoProgress
    /\ UNCHANGED fs

\* what the except clause of lines 81-83 prints
create_failed(id) == << [msg |-> "Failed to create", arg |-> id] >>

\* one iteration of the loop, lines 18-83: gh issue create, caught per call
create_feature_issues_step ==
    /\ script \in {"create_feature_issues", "create_issues_simple"}
    /\ pc = "create"
    /\ i <= Len(features_of(script))
    /\ LET id == features_of(script)[i]
       IN  \E rc \in {"zero", "nonzero"} :
             /\ trace' = Append(trace, [cmd |-> "gh issue create", arg |-> id, rc |-> rc])
             /\ log' = log \o (IF rc = "zero"
                               THEN << [msg |-> "Created", arg |-> id] >>
                               ELSE create_failed(id))
    /\ i' = i + 1
    /\ pc' = after_loop(i + 1, features_of(script), "create")
    /\ UNCHANGED << tracker, features, fs, fs0, synced, runs, script, argv, issue_numbers, issues,
                    not_started, ready_to_implement, implemented, confirm,
                    progress_data, next_feature >>

-----------------------------------------------------------------------------
(* sync_implementations.py *)

\* lines 13-18: the feature id of each (branch, feature_id, feature_name)
claude_branches == << "F1", "F2", "F3", "F4" >>

\* lines 21-22: git branch --show-current; its result is never used
sync_start ==
    /\ Begin("sync_claude_implementations")
    /\ trace' = << [cmd |-> "git branch --show-current", arg |-> "", rc |-> "unread"] >>
    /\ log' = << >>
    /\ i' = 1
    /\ pc' = "sync"
    /\ NoDashboard
    /\ NoTrigger
    /\ NoProgress
    /\ UNCHANGED fs

\* what the branch origin/<branch> can put at ios/VoiceKoereq/**/<feature_id>*
\* among the files the scripts read
checkout_ios(id) == SUBSET ({check_path(id)} \cap Paths)

\* one iteration of lines 24-43: two git checkouts, only a zero return code is printed
sync_step ==
    /\ script = "sync_claude_implementations"
    /\ pc = "sync"
    /\ i <= Len(claude_branches)
    /\ LET id == claude_branches[i]
       IN  \E ios \in {"zero", "nonzero"}, android \in {"zero", "nonzero"} :
           \E got \in checkout_ios(id) :
             /\ ios = "nonzero" => got = {}
             /\ fs' = fs \cup got
             /\ trace' = trace \o
                  << [cmd |-> "git checkout ios", arg |-> id, rc |-> ios],
                     [cmd |-> "git checkout android", arg |-> id, rc |-> android] >>
             /\ log' = log \o << [msg |-> "Syncing", arg |-> id] >>
                  \o (IF ios = "zero"
                      THEN << [msg |-> "iOS files synced", arg |-> id] >> ELSE << >>)
                  \o (IF android = "zero"
                      THEN << [msg |-> "Android files synced", arg |-> id] >> ELSE << >>)
    /\ i' = i + 1
    /\ UNCHANGED << tracker, features, fs0, synced, runs, script, pc, argv, issue_numbers, issues,
                    not_started, ready_to_implement, implemented, confirm,
                    progress_data, next_feature >>

\* lines 45-49: git add ., git status --short
sync_finish ==
    /\ script = "sync_claude_implementations"
    /\ pc = "sync"
    /\ i > Len(claude_branches)
    /\ trace' = trace \o << [cmd |-> "git add .", arg |-> "", rc |-> "unread"],
                            [cmd |-> "git status --short", arg |-> "", rc |-> "unread"] >>
    /\ log' = Append(log, [msg |-> "Sync complete", arg |-> ""])
    /\ pc' = "done"
    /\ UNCHANGED << tracker, features, fs, fs0, synced, runs, script, argv, issue_numbers, i, issues,
                    not_started, ready_to_implement, implemented, confirm,
                    progress_data, next_feature >>

-----------------------------------------------------------------------------
(* trigger_claude_batch.py *)

\* time.sleep(30), line 28
SleepSeconds == 30

\* lines 24-28: what follows a successful comment
after_comment_ok(n, nums) ==
    IF Len(nums) > 1
    THEN [ trace |-> << [cmd |-> "sleep", arg |-> SleepSeconds, rc |-> "unread"] >>,
           log |-> << [msg |-> "Comment added", arg |-> n], [msg |-> "Waiting", arg |-> n] >> ]
    ELSE [ trace |-> << >>, log |-> << [msg |-> "Comment added", arg |-> n] >> ]

\* lines 30-31: what follows a failed comment
after_comment_failed(n, nums) ==
    [ trace |-> << >>, log |-> << [msg |-> "Failed to comment", arg |-> n] >> ]

\* __main__ with an argument, lines 58-60 and 76
main_argv ==
    /\ Begin("trigger_claude_batch")
    /\ \E nums \in SeqsUpTo(ArgvNumbers, MaxIssues) \ {<< >>} :
          /\ argv' = nums
          /\ issue_numbers' = nums
    /\ confirm' = ""
    /\ i' = 1
    /\ pc' = "trigger"
    /\ trace' = << >>
    /\ log' = << >>
    /\ NoDashboard
    /\ NoProgress
    /\ UNCHANGED fs

\* one iteration of trigger_claude_on_issues, lines 13-31
trigger_claude_on_issues_step ==
    /\ script = "trigger_claude_batch"
    /\ pc = "trigger"
    /\ i <= Len(issue_numbers)
    /\ LET n == issue_numbers[i]
       IN  \E rc \in {"zero", "nonzero"} :
             LET then == IF rc = "zero" THEN after_comment_ok(n, issue_numbers)
                         ELSE after_comment_failed(n, issue_numbers)
             IN  /\ trace' = Append(trace, [cmd |-> "gh issue comment", arg |-> n, rc |-> rc])
                             \o then.trace
                 /\ log' = Append(log, [msg |-> "Triggering", arg |-> n]) \o then.log
    /\ i' = i + 1
    /\ pc' = after_loop(i + 1, issue_numbers, "trigger")
    /\ UNCHANGED << tracker, features, fs, fs0, synced, runs, script, argv, issue_numbers, issues,
                    not_started, ready_to_implement, implemented, confirm,
                    progress_data, next_feature >>

-----------------------------------------------------------------------------
(* Runs of the scripts that read the feature specification or the working tree *)

Init ==
    /\ tracker = << >>
    /\ features \in SeqsUpTo(FeatureIds, MaxFeatures)
    /\ fs \in SUBSET Paths
    /\ fs0 = fs
    /\ synced = FALSE
    /\ runs = 0
    /\ script = "none"
    /\ pc = "idle"
    /\ argv = << >>
    /\ issue_numbers = << >>
    /\ i = 0
    /\ trace = << >>
    /\ log = << >>
    /\ issues = << >>
    /\ not_started = << >>
    /\ ready_to_implement = << >>
    /\ implemented = << >>
    /\ confirm = ""
    /\ progress_data = NoReport
    /\ next_feature = ""

Next ==
    \/ check_progress
    \/ create_feature_issues_start
    \/ create_feature_issues_step
    \/ sync_start
    \/ sync_step
    \/ sync_finish
    \/ main_argv
    \/ trigger_claude_on_issues_step

Spec == Init /\ [][Next]_vars

-----------------------------------------------------------------------------
(* trigger_claude_batch.py without argument *)

\* line 46: the labels that make an issue a feature issue
feature_labels == {"feature", "ai_service", "ui", "audio_capture", "backend"}

\* the loop of lines 42-47, from issue k on
RECURSIVE unimplemented_loop(_, _, _)
unimplemented_loop(list, k, unimplemented) ==
    IF k > Len(list) THEN unimplemented
    ELSE IF "implemented" \notin list[k].labels /\ list[k].labels \cap feature_labels # {}
         THEN unimplemented_loop(list, k + 1, Append(unimplemented, list[k].number))
         ELSE unimplemented_loop(list, k + 1, unimplemented)

\* get_unimplemented_issues(), lines 33-53, on the outcome of gh issue list
get_unimplemented_issues(rc, list) ==
    IF rc = "zero" THEN unimplemented_loop(list, 1, << >>) ELSE << >>

\* a prompt that takes everything but "n" for a yes
confirmed_default_yes_mutant(a) == a \notin {"n", "N"}

\* str.lower() on the answers of the model
lower(a) == IF a = "Y" THEN "y" ELSE a

\* line 72: the answers that go on to trigger_claude_on_issues
confirmed(a) == lower(a) = "y"

\* __main__ without argument, lines 61-69: fetch, leave when nothing is found
main_fetch ==
    /\ Begin("trigger_claude_batch")
    /\ \E rc \in {"zero", "nonzero"} :
          /\ LET list == IF rc = "zero" THEN tracker ELSE << >>
                 nums == get_unimplemented_issues(rc, list)
             IN  /\ issues' = list
                 /\ issue_numbers' = nums
                 /\ trace' = << [cmd |-> "gh issue list", arg |-> 0, rc |-> rc] >>
                 /\ log' = (IF rc = "zero" THEN << >>
                            ELSE << [msg |-> "Failed to fetch issues", arg |-> 0] >>)
                           \o (IF nums = << >>
                               THEN << [msg |-> "No unimplemented issues found", arg |-> 0] >>
                               ELSE << [msg |-> "Found", arg |-> Len(nums)] >>)
                 /\ pc' = IF nums = << >> THEN "done" ELSE "confirm"
    /\ argv' = << >>
    /\ confirm' = ""
    /\ i' = 0
    /\ not_started' = << >>
    /\ ready_to_implement' = << >>
    /\ implemented' = << >>
    /\ NoProgress
    /\ UNCHANGED fs

\* lines 70-76: the prompt
main_confirm ==
    /\ script = "trigger_claude_batch"
    /\ pc = "confirm"
    /\ \E a \in Answers :
          /\ confirm' = a
          /\ IF confirmed(a)
             THEN /\ pc' = after_loop(1, issue_numbers, "trigger")
                  /\ i' = 1
                  /\ log' = log
             ELSE /\ pc' = "done"
                  /\ i' = i
                  /\ log' = Append(log, [msg |-> "Cancelled", arg |-> 0])
    /\ UNCHANGED << tracker, features, fs, fs0, synced, runs, script, argv, issue_numbers, trace,
                    issues, not_started, ready_to_implement, implemented,
                    progress_data, next_feature >>

-----------------------------------------------------------------------------
(* create_issues.py: show_dashboard *)

\* the loop with its first two tests swapped
RECURSIVE bucket_loop_ready_first_mutant(_, _, _, _, _)
bucket_loop_ready_first_mutant(list, k, ns, rti, impl) ==
    IF k > Len(list)
    THEN [not_started |-> ns, ready_to_implement |-> rti, implemented |-> impl]
    ELSE IF "ready-to-implement" \in list[k].labels
         THEN bucket_loop_ready_first_mutant(list, k + 1, ns, Append(rti, list[k]), impl)
         ELSE IF "implemented" \in list[k].labels
              THEN bucket_loop_ready_first_mutant(list, k + 1, ns, rti, Append(impl, list[k]))
              ELSE bucket_loop_ready_first_mutant(list, k + 1, Append(ns, list[k]), rti, impl)

\* the loop of lines 32-40, from issue k on
RECURSIVE bucket_loop(_, _, _, _, _)
bucket_loop(list, k, ns, rti, impl) ==
    IF k > Len(list)
    THEN [not_started |-> ns, ready_to_implement |-> rti, implemented |-> impl]
    ELSE IF "implemented" \in list[k].labels
         THEN bucket_loop(list, k + 1, ns, rti, Append(impl, list[k]))
         ELSE IF "ready-to-implement" \in list[k].labels
              THEN bucket_loop(list, k + 1, ns, Append(rti, list[k]), impl)
              ELSE bucket_loop(list, k + 1, Append(ns, list[k]), rti, impl)

\* a dashboard that goes on to the pull requests after a failed gh issue list
after_fetch_failed_continue_mutant == "prs"

\* lines 21-23: where a failed gh issue list leaves the dashboard
after_fetch_failed == "done"

\* lines 17-40: gh issue list, then the buckets
show_dashboard_fetch ==
    /\ Begin("show_dashboard")
    /\ \E rc \in {"zero", "nonzero"} :
          /\ trace' = << [cmd |-> "gh issue list", arg |-> 0, rc |-> rc] >>
          /\ IF rc # "zero"
             THEN /\ log' = << [msg |-> "header", arg |-> 0],
                               [msg |-> "Failed to fetch issues", arg |-> 0] >>
                  /\ pc' = after_fetch_failed
                  /\ NoDashboard
             ELSE LET list == tracker
                      b == bucket_loop(list, 1, << >>, << >>, << >>)
                  IN  /\ log' = << [msg |-> "header", arg |-> 0] >>
                      /\ pc' = "stats"
                      /\ issues' = list
                      /\ not_started' = b.not_started
                      /\ ready_to_implement' = b.ready_to_implement
                      /\ implemented' = b.implemented
    /\ i' = 0
    /\ NoTrigger
    /\ NoProgress
    /\ UNCHANGED fs

\* lines 42-70: the statistics; line 46 divides by total
show_dashboard_stats ==
    /\ script = "show_dashboard"
    /\ pc = "stats"
    /\ LET total == Len(issues)
       IN  IF total = 0
           THEN /\ log' = log \o << [msg |-> "total", arg |-> total] >>
                /\ pc' = "error"
           ELSE /\ log' = log \o
                     << [msg |-> "total", arg |-> total],
                        [msg |-> "implemented", arg |-> Len(implemented)],
                        [msg |-> "in progress", arg |-> Len(ready_to_implement)],
                        [msg |-> "not started", arg |-> Len(not_started)],
                        [msg |-> "details", arg |-> 0] >>
                /\ pc' = "prs"
    /\ UNCHANGED << tracker, features, fs, fs0, synced, runs, script, argv, issue_numbers, i, trace,
                    issues, not_started, ready_to_implement, implemented, confirm,
                    progress_data, next_feature >>

\* lines 72-82: gh pr list, printed only on return code 0
show_dashboard_prs ==
    /\ script = "show_dashboard"
    /\ pc = "prs"
    /\ \E rc \in {"zero", "nonzero"} :
          /\ trace' = Append(trace, [cmd |-> "gh pr list", arg |-> 0, rc |-> rc])
          /\ log' = log \o << [msg |-> "PR header", arg |-> 0] >>
                        \o (IF rc = "zero" THEN << [msg |-> "PRs", arg |-> 0] >> ELSE << >>)
    /\ pc' = "actions"
    /\ UNCHANGED << tracker, features, fs, fs0, synced, runs, script, argv, issue_numbers, i,
                    issues, not_started, ready_to_implement, implemented, confirm,
                    progress_data, next_feature >>

\* lines 84-96: the next actions
show_dashboard_actions ==
    /\ script = "show_dashboard"
    /\ pc = "actions"
    /\ log' = log \o << [msg |-> "next actions", arg |-> 0] >>
                  \o (IF not_started # << >>
                      THEN << [msg |-> "add label", arg |-> not_started[1].number] >>
                      ELSE << >>)
                  \o (IF ready_to_implement # << >>
                      THEN << [msg |-> "view", arg |-> ready_to_implement[1].number] >>
                      ELSE << >>)
                  \o << [msg |-> "batch", arg |-> 0] >>
    /\ pc' = "done"
    /\ UNCHANGED << tracker, features, fs, fs0, synced, runs, script, argv, issue_numbers, i, trace,
                    issues, not_started, ready_to_implement, implemented, confirm,
                    progress_data, next_feature >>

-----------------------------------------------------------------------------
(* Runs of the scripts that read the issue tracker *)

InitGh ==
    /\ tracker \in IssueLists
    /\ features = << >>
    /\ fs = {}
    /\ fs0 = fs
    /\ synced = FALSE
    /\ runs = 0
    /\ script = "none"
    /\ pc = "idle"
    /\ argv = << >>
    /\ issue_numbers = << >>
    /\ i = 0
    /\ trace = << >>
    /\ log = << >>
    /\ issues = << >>
    /\ not_started = << >>
    /\ ready_to_implement = << >>
    /\ implemented = << >>
    /\ confirm = ""
    /\ progress_data = NoReport
    /\ next_feature = ""

NextGh ==
    \/ show_dashboard_fetch
    \/ show_dashboard_stats
    \/ show_dashboard_prs
    \/ show_dashboard_actions
    \/ main_fetch
    \/ main_confirm
    \/ trigger_claude_on_issues_step

SpecGh == InitGh /\ [][NextGh]_vars

-----------------------------------------------------------------------------
(* Properties *)

Count(s, x) == Cardinality({k \in 1..Len(s) : s[k] = x})

Calls(cmd) == SelectSeq(trace, LAMBDA e : e.cmd = cmd)

Args(s) == [k \in 1..Len(s) |-> s[k].arg]

Logged(msg) == \E k \in 1..Len(log) : log[k].msg = msg

CheckProgressDone == script = "check_progress" /\ pc = "done"

\* the entries of the feature list whose view file exists
ImplementedEntries == {k \in 1..Len(features) : check_path(features[k]) \in fs}

PendingEntries == (1..Len(features)) \ ImplementedEntries

LoopScripts ==
    {"create_feature_issues", "create_issues_simple", "trigger_claude_batch",
     "sync_claude_implementations"}

FailureMessages == {"Failed to create", "Failed to comment", "Error syncing"}

\* the items of a finished loop were each attempted once, in list order
AttemptedOnceInOrder ==
    CASE script \in {"create_feature_issues", "create_issues_simple"} ->
            Args(Calls("gh issue create")) = features_of(script)
      [] script = "trigger_claude_batch" ->
            Args(Calls("gh issue comment")) = issue_numbers
      [] script = "sync_claude_implementations" ->
            /\ Args(Calls("git checkout ios")) = claude_branches
            /\ Args(Calls("git checkout android")) = claude_branches
      [] OTHER -> TRUE

\* every command of the loop that returned non-zero has a failure line on the console
FailuresLogged ==
    \A k \in 1..Len(trace) :
        trace[k].rc = "nonzero" =>
            \E j \in 1..Len(log) :
                log[j].msg \in FailureMessages /\ log[j].arg = trace[k].arg

LoopDone == script \in LoopScripts /\ pc = "done" /\ trace # << >>

\* the parts of C2 the code keeps: the attempts, and the log of the scripts
\* that catch CalledProcessError
LoopsAttemptEveryItem == LoopDone => AttemptedOnceInOrder

FailuresLoggedExceptSync ==
    (LoopDone /\ script # "sync_claude_implementations") => FailuresLogged

\* C2: in every looping script each item of the list has its command attempted
\* exactly once, in list order, whatever subset of the calls fails, and every
\* failed call is logged.
C2_EveryItemAttemptedFailuresLogged ==
    LoopDone => AttemptedOnceInOrder /\ FailuresLogged

\* C3: in trigger_claude_on_issues a sleep separates every two successive
\* gh issue comment calls, whether the earlier call succeeded or failed.
C3_SleepBetweenComments ==
    script = "trigger_claude_batch" =>
        \A k \in 1..(Len(trace) - 1) :
            (trace[k].cmd = "gh issue comment" /\ Len(issue_numbers) > 1)
                => trace[k + 1].cmd # "gh issue comment"

\* the part of C3 the code keeps: a sleep follows every successful comment
SleepAfterSuccessfulComment ==
    (script = "trigger_claude_batch" /\ Len(issue_numbers) > 1) =>
        \A k \in 1..Len(trace) :
            (trace[k].cmd = "gh issue comment" /\ trace[k].rc = "zero")
                => (k < Len(trace) /\ trace[k + 1].cmd = "sleep"
                    /\ trace[k + 1].arg = SleepSeconds)

DashboardFetchFailed ==
    script = "show_dashboard" /\ trace # << >> /\ trace[1].rc = "nonzero"

DashboardFetched ==
    script = "show_dashboard" /\ trace # << >> /\ trace[1].rc = "zero"

\* C4 as stated: after a failed gh issue list the failure is logged and the
\* PR-list fetch and the next-actions section are still executed.
C4_FetchFailureDoesNotAbort ==
    (DashboardFetchFailed /\ pc = "done") =>
        /\ Logged("Failed to fetch issues")
        /\ Calls("gh pr list") # << >>
        /\ Logged("next actions")

\* C4 amended: a failed gh issue list is logged and ends show_dashboard at
\* once; neither the PR-list fetch nor the next-actions section is executed.
C4_FetchFailureEndsDashboard ==
    DashboardFetchFailed =>
        /\ pc = "done"
        /\ Logged("Failed to fetch issues")
        /\ Calls("gh pr list") = << >>
        /\ ~Logged("next actions")

\* a dashboard run whose gh issue list returned non-zero
C4_Witness == DashboardFetchFailed /\ Logged("Failed to fetch issues")

\* C5: for every issue list gh issue list returns, the empty list included,
\* show_dashboard prints the statistics summary and never ends in an error.
C5_DashboardCompletes ==
    DashboardFetched =>
        /\ pc # "error"
        /\ pc \in {"prs", "actions", "done"} =>
              /\ Logged("total") /\ Logged("implemented")
              /\ Logged("in progress") /\ Logged("not started")

\* the part of C5 the code keeps: a non-empty list never ends in an error
DashboardCompletesOnNonEmpty ==
    (DashboardFetched /\ issues # << >>) => pc # "error"

\* C6: every fetched issue is in exactly one bucket: implemented iff it has the
\* label implemented, ready_to_implement iff it has ready-to-implement and not
\* implemented, not_started otherwise; the bucket sizes sum to the total.
C6_BucketsPartitionIssues ==
    DashboardFetched =>
        /\ \A k \in 1..Len(issues) :
              LET x == issues[k]
              IN  /\ Count(implemented, x) + Count(ready_to_implement, x)
                        + Count(not_started, x) = 1
                  /\ Count(implemented, x) = 1 <=> "implemented" \in x.labels
                  /\ Count(ready_to_implement, x) = 1 <=>
                        ("ready-to-implement" \in x.labels /\ "implemented" \notin x.labels)
                  /\ Count(not_started, x) = 1 <=>
                        ("ready-to-implement" \notin x.labels /\ "implemented" \notin x.labels)
        /\ Len(implemented) + Len(ready_to_implement) + Len(not_started) = Len(issues)

\* an issue carrying both labels, bucketed as implemented
C6_Witness ==
    /\ DashboardFetched
    /\ \E k \in 1..Len(issues) :
          /\ {"implemented", "ready-to-implement"} \subseteq issues[k].labels
          /\ Count(implemented, issues[k]) = 1
    /\ not_started # << >>

\* C7 as stated: the report of a check_progress run is the one the initial
\* working tree gives, whatever scripts ran before it.
C7_ReportIndependentOfEarlierRuns ==
    CheckProgressDone => progress_data = progress_data_of(features, fs0)

\* C7 amended: the report of a check_progress run is the same whether or not
\* check_progress, an issue-creating script or the batch trigger ran before it;
\* only an earlier sync_claude_implementations, which checks view files out
\* into the working tree, can change it.
C7_ReportIndependentUnlessSynced ==
    (CheckProgressDone /\ ~synced) => progress_data = progress_data_of(features, fs0)

\* a check_progress run after an earlier run of another script or of itself
C7_Witness ==
    /\ CheckProgressDone
    /\ ~synced
    /\ runs >= 2
    /\ "progress.json" \in fs
    /\ progress_data.pending_features # << >>

CommentedNumbers == Range(Args(Calls("gh issue comment")))

\* C8: without an argument no comment is posted unless the fetched list of
\* unimplemented issues is non-empty and the answer is y or Y; every commented
\* issue lacks the label implemented and has a feature label.
C8_CommentsNeedListAndConfirmation ==
    (script = "trigger_claude_batch" /\ argv = << >>) =>
        /\ CommentedNumbers # {} =>
              /\ trace[1].cmd = "gh issue list" /\ trace[1].rc = "zero"
              /\ issue_numbers # << >>
              /\ confirm \in {"y", "Y"}
        /\ \A n \in CommentedNumbers :
              \E k \in 1..Len(issues) :
                  /\ issues[k].number = n
                  /\ "implemented" \notin issues[k].labels
                  /\ issues[k].labels \cap feature_labels # {}

\* a run without argument, confirmed with Y, that has posted a comment
C8_Witness ==
    /\ script = "trigger_claude_batch"
    /\ argv = << >>
    /\ confirm = "Y"
    /\ CommentedNumbers # {}
    /\ Len(issues) > Len(issue_numbers)

\* C9: implemented_features and pending_features are disjoint, each in the
\* order of the feature list, together hold every feature entry exactly once,
\* and implemented and total_features are their lengths.
C9_ReportListsPartitionFeatures ==
    CheckProgressDone =>
        LET impl == progress_data.implemented_features
            pend == progress_data.pending_features
        IN  /\ Range(impl) \cap Range(pend) = {}
            /\ impl = SelectSeq(features, LAMBDA x : x \in Range(impl))
            /\ pend = SelectSeq(features, LAMBDA x : x \in Range(pend))
            /\ \A x \in Range(features) : Count(impl, x) + Count(pend, x) = Count(features, x)
            /\ progress_data.implemented = Len(impl)
            /\ progress_data.total_features = Len(impl) + Len(pend)

\* a report with both lists non-empty and a repeated feature id
C9_Witness ==
    /\ CheckProgressDone
    /\ progress_data.implemented_features # << >>
    /\ progress_data.pending_features # << >>
    /\ Cardinality(Range(features)) < Len(features)

\* C10: next_feature is the id of the first feature, in list order, without a
\* view file, and is empty exactly when every feature is implemented.
C10_NextFeatureIsFirstPending ==
    CheckProgressDone =>
        /\ PendingEntries # {} =>
              \E k \in PendingEntries :
                  /\ \A j \in PendingEntries : k <= j
                  /\ next_feature = features[k]
        /\ next_feature = "" <=> PendingEntries = {}
        /\ log[Len(log)] = [msg |-> "set-output next_feature", arg |-> next_feature]

\* two different pending features, the first of them reported
C10_Witness ==
    /\ CheckProgressDone
    /\ Len(progress_data.pending_features) >= 2
    /\ progress_data.pending_features[1] # progress_data.pending_features[2]
    /\ next_feature = progress_data.pending_features[1]

====
